---- MODULE Spec2Model ----
(***************************************************************************)
(* Law Links Service (HW_1/main.py): the citation detector behind POST     *)
(* /detect.  The lifespan handler builds the alias index and compiles the  *)
(* citation grammar; get_law_links scans a text with the grammar, resolves *)
(* each law name against the alias index and expands every match into      *)
(* LawLink records.                                                        *)
(*                                                                         *)
(* Strings are sequences of characters.  A character is written as a       *)
(* one-element symbol; the Cyrillic letters of the source are written with *)
(* their romanisation, one symbol per letter, upper case for upper case:   *)
(*   a=а b=б v=в g=г d=д e=е zh=ж z=з i=и j=й k=к l=л m=м n=н o=о p=п r=р  *)
(*   s=с t=т u=у f=ф h=х c=ц ch=ч sh=ш sch=щ qq=ъ y=ы q=ь eh=э yu=ю ya=я   *)
(* "No" is the numero sign, "<<" and ">>" are the guillemets.  Latin       *)
(* letters are not part of the modelled alphabet.  The string literals of  *)
(* main.py are read as the UTF-8 Cyrillic text they encode.                *)
(* An Optional value is <<>> (None) or <<x>> (the value x).                *)
(***************************************************************************)
EXTENDS Integers, Sequences, FiniteSets, TLC

VARIABLES
  phase,          \* lifespan: "boot" before the yield, "serving", "stopped"
  codex_aliases,  \* law_aliases.json as loaded: <<[law_id, aliases]>> in file order
  alias_to_id,    \* app.state.alias_to_id: <<[alias, lid]>> in insertion order
  detect_regex,   \* app.state.detect_regex: None, or the compiled pattern
  queue,          \* the texts of the detect requests still to come
  responses,      \* the responses given: text, the scanner's matches, links
  lawname,        \* the phrase handed to resolve_law_id directly, or None
  law_id          \* None, or the Optional law id resolve_law_id returned

vars == <<phase, codex_aliases, alias_to_id, detect_regex, queue, responses,
          lawname, law_id>>

None == <<>>
Some(x) == <<x>>

----------------------------------------------------------------------------
(* Characters *)

CyrLower == <<"a","b","v","g","d","e","zh","z","i","j","k","l","m","n","o","p",
              "r","s","t","u","f","h","c","ch","sh","sch","qq","y","q","eh","yu","ya">>
CyrUpper == <<"A","B","V","G","D","E","ZH","Z","I","J","K","L","M","N","O","P",
              "R","S","T","U","F","H","C","CH","SH","SCH","QQ","Y","Q","EH","YU","YA">>

Range(s) == {s[i] : i \in DOMAIN s}

Letters == Range(CyrLower) \cup Range(CyrUpper)
Digits == {"0","1","2","3","4","5","6","7","8","9"}
(* \s of the regular expressions and the whitespace of str.strip() *)
Whitespace == {" ", "\n", "\t"}
(* \w *)
WordChars == Letters \cup Digits \cup {"_"}

LowerMap == [c \in Range(CyrUpper) |->
               CyrLower[CHOOSE i \in DOMAIN CyrUpper : CyrUpper[i] = c]]

(* str.lower() on one character *)
LowerChar(c) == IF c \in DOMAIN LowerMap THEN LowerMap[c] ELSE c

(* str.lower() *)
Lower(s) == [i \in DOMAIN s |-> LowerChar(s[i])]

(* a in k, on strings *)
IsSubstr(a, k) ==
  \E i \in 0..(Len(k) - Len(a)) : \A j \in 1..Len(a) : k[i + j] = a[j]

RECURSIVE StripLeft(_, _)
StripLeft(s, chars) ==
  IF s # <<>> /\ Head(s) \in chars THEN StripLeft(Tail(s), chars) ELSE s

RECURSIVE StripRight(_, _)
StripRight(s, chars) ==
  IF s # <<>> /\ s[Len(s)] \in chars
  THEN StripRight(SubSeq(s, 1, Len(s) - 1), chars) ELSE s

(* str.strip(chars): removes the characters of chars from both ends *)
StripChars(s, chars) == StripRight(StripLeft(s, chars), chars)

(* str.strip() *)
Strip(s) == StripChars(s, Whitespace)

----------------------------------------------------------------------------
(* Regular expressions: the syntax tree of a pattern and the backtracking  *)
(* matcher of the re module.  M returns the match states reachable from a  *)
(* state in the order the backtracking search tries them, so the head of   *)
(* the result is the match the engine reports.                             *)

Lit(s) == [k |-> "lit", s |-> s]
Cls(c) == [k |-> "cls", c |-> c]
Cat(rs) == [k |-> "cat", rs |-> rs]
Alt(rs) == [k |-> "alt", rs |-> rs]
Opt(r) == [k |-> "opt", r |-> r]
Star(r) == [k |-> "star", r |-> r]
Plus(r) == [k |-> "cat", rs |-> <<r, [k |-> "star", r |-> r]>>]
LazyPlus(r) == [k |-> "lazyplus", r |-> r]
Grp(n, r) == [k |-> "grp", n |-> n, r |-> r]

NoGroups == [subvalues |-> None, pointvalues |-> None,
             articlevalues |-> None, lawname |-> None]

RECURSIVE M(_, _, _), MAll(_, _, _), MCat(_, _, _), MAlt(_, _, _),
          MStar(_, _, _), MStarAll(_, _, _, _), MLazy(_, _, _), MLazyAll(_, _, _, _)

M(re, t, st) ==
  CASE re.k = "lit" ->
         IF /\ st.pos + Len(re.s) <= Len(t)
            /\ \A j \in 1..Len(re.s) : LowerChar(t[st.pos + j]) = LowerChar(re.s[j])
         THEN <<[st EXCEPT !.pos = @ + Len(re.s)]>>
         ELSE <<>>
    [] re.k = "cls" ->
         IF st.pos < Len(t) /\ t[st.pos + 1] \in re.c
         THEN <<[st EXCEPT !.pos = @ + 1]>>
         ELSE <<>>
    [] re.k = "cat" -> MCat(re.rs, t, <<st>>)
    [] re.k = "alt" -> MAlt(re.rs, t, st)
    [] re.k = "opt" -> M(re.r, t, st) \o <<st>>
    [] re.k = "star" -> MStar(re.r, t, st)
    [] re.k = "lazyplus" -> MLazyAll(re.r, t, M(re.r, t, st), st.pos)
    [] re.k = "grp" ->
         LET ends == M(re.r, t, st)
         IN [i \in DOMAIN ends |->
               [ends[i] EXCEPT !.g[re.n] = Some(SubSeq(t, st.pos + 1, ends[i].pos))]]

(* the states after re from each state of sts, in order *)
MAll(re, t, sts) ==
  IF sts = <<>> THEN <<>> ELSE M(re, t, Head(sts)) \o MAll(re, t, Tail(sts))

MCat(rs, t, sts) ==
  IF rs = <<>> THEN sts ELSE MCat(Tail(rs), t, MAll(Head(rs), t, sts))

MAlt(rs, t, st) ==
  IF rs = <<>> THEN <<>> ELSE M(Head(rs), t, st) \o MAlt(Tail(rs), t, st)

(* greedy repetition: one more iteration is tried before stopping *)
MStar(r, t, st) == MStarAll(r, t, M(r, t, st), st.pos) \o <<st>>

MStarAll(r, t, sts, from) ==
  IF sts = <<>> THEN <<>>
  ELSE (IF Head(sts).pos > from THEN MStar(r, t, Head(sts)) ELSE <<>>)
       \o MStarAll(r, t, Tail(sts), from)

(* lazy repetition: stopping is tried before one more iteration *)
MLazy(r, t, st) == <<st>> \o MLazyAll(r, t, M(r, t, st), st.pos)

MLazyAll(r, t, sts, from) ==
  IF sts = <<>> THEN <<>>
  ELSE (IF Head(sts).pos > from THEN MLazy(r, t, Head(sts)) ELSE <<>>)
       \o MLazyAll(r, t, Tail(sts), from)

(* Pattern.finditer: the non-overlapping matches, leftmost first; each     *)
(* match is its span and its named groups                                  *)
RECURSIVE FindIter(_, _, _)
FindIter(re, t, i) ==
  IF i > Len(t) THEN <<>>
  ELSE LET r == M(re, t, [pos |-> i, g |-> NoGroups])
       IN IF r = <<>> THEN FindIter(re, t, i + 1)
          ELSE <<[start |-> i, end |-> r[1].pos, g |-> r[1].g]>>
               \o FindIter(re, t, IF r[1].pos > i THEN r[1].pos ELSE i + 1)

----------------------------------------------------------------------------
(* The citation grammar compiled by lifespan (re.VERBOSE | re.IGNORECASE |  *)
(* re.UNICODE: pattern whitespace is dropped, literals match in any case)  *)

ws == Cls(Whitespace)

(* (?:а|у|ом|е)? *)
CaseEnding == Opt(Alt(<<Lit(<<"a">>), Lit(<<"u">>), Lit(<<"o","m">>), Lit(<<"e">>)>>))

(* unit_patterns["subpoint"] *)
unit_subpoint ==
  Alt(<<Cat(<<Lit(<<"p","o","d","p","u","n","k","t">>), CaseEnding>>),
        Lit(<<"p","p",".">>),
        Lit(<<"p","o","d","p",".">>),
        Lit(<<"p","o","d","p","u","n","k","t","y">>)>>)

(* unit_patterns["point"] *)
unit_point ==
  Alt(<<Cat(<<Lit(<<"p","u","n","k","t">>), CaseEnding>>),
        Lit(<<"p",".">>),
        Lit(<<"ch",".">>),
        Cat(<<Lit(<<"ch","a","s","t","q">>), Opt(Alt(<<Lit(<<"i">>), Lit(<<"yu">>)>>))>>),
        Lit(<<"ch","a","s","t","i">>)>>)

(* unit_patterns["article"] *)
unit_article ==
  Alt(<<Lit(<<"s","t","a","t","q","ya">>),
        Lit(<<"s","t",".">>),
        Lit(<<"s","t","a","t","q","i">>)>>)

(* [0-9]+(?:\.[0-9]+)*(?:-[0-9]+)? *)
num ==
  Cat(<<Plus(Cls(Digits)),
        Star(Cat(<<Lit(<<".">>), Plus(Cls(Digits))>>)),
        Opt(Cat(<<Lit(<<"-">>), Plus(Cls(Digits))>>))>>)

(* [А-Яа-яA-Za-z] *)
letter == Cls(Letters)

(* \s*,\s*|\s+и\s+ *)
list_sep ==
  Alt(<<Cat(<<Star(ws), Lit(<<",">>), Star(ws)>>),
        Cat(<<Plus(ws), Lit(<<"i">>), Plus(ws)>>)>>)

(* (?:num|letter)(?:(?:list_sep)(?:num|letter))* *)
list_num ==
  Cat(<<Alt(<<num, letter>>),
        Star(Cat(<<list_sep, Alt(<<num, letter>>)>>))>>)

(* [А-Яа-я\w\s«»\-\.\"№Nо] *)
LawNameChars ==
  Letters \cup WordChars \cup Whitespace \cup {"<<", ">>", "-", ".", "\"", "No"}

LegalActNouns ==
  <<Lit(<<"k","o","d","e","k","s">>), Lit(<<"K","o","d","e","k","s">>),
    Lit(<<"z","a","k","o","n">>), Lit(<<"Z","a","k","o","n">>),
    Lit(<<"F","Z">>), Lit(<<"K","o","A","P">>), Lit(<<"A","P","K">>),
    Lit(<<"G","P","K">>), Lit(<<"G","K">>), Lit(<<"U","K">>), Lit(<<"N","K">>),
    Lit(<<"U","k","a","z">>), Lit(<<"u","k","a","z">>),
    Lit(<<"P","o","l","o","zh","e","n","i","e">>),
    Lit(<<"p","o","l","o","zh","e","n","i","e">>)>>

(* law_name_pattern with the legal-act noun optional *)
law_name_unanchored ==
  Grp("lawname",
      Cat(<<LazyPlus(Cls(LawNameChars)),
            Opt(Alt(LegalActNouns)),
            Star(Cls(LawNameChars))>>))

law_name_pattern ==
  Grp("lawname",
      Cat(<<LazyPlus(Cls(LawNameChars)),
            Alt(LegalActNouns),
            Star(Cls(LawNameChars))>>))

pattern ==
  Cat(<<Opt(Cat(<<unit_subpoint, Star(ws), Grp("subvalues", list_num)>>)), Star(ws),
        Opt(Cat(<<unit_point, Star(ws), Grp("pointvalues", list_num)>>)), Star(ws),
        Opt(Cat(<<Lit(<<"i">>), Plus(ws)>>)),
        unit_article, Star(ws), Grp("articlevalues", list_num), Star(ws),
        law_name_pattern>>)

----------------------------------------------------------------------------
(* get_law_links and its helpers *)

(* the pieces of t between the matches ms, from offset i (re.split) *)
RECURSIVE Pieces(_, _, _)
Pieces(t, ms, i) ==
  IF ms = <<>> THEN <<SubSeq(t, i + 1, Len(t))>>
  ELSE <<SubSeq(t, i + 1, Head(ms).start)>> \o Pieces(t, Tail(ms), Head(ms).end)

ReSplit(re, t) == Pieces(t, FindIter(re, t, 0), 0)

(* split_values: Optional[str] -> List[str] *)
split_values(values) ==
  IF values = None \/ values[1] = <<>> THEN <<>>
  ELSE LET parts == ReSplit(list_sep, Strip(values[1]))
           stripped == [i \in DOMAIN parts |-> Strip(parts[i])]
       IN SelectSeq(stripped, LAMBDA p : p # <<>>)

(* DictSet that keeps the value a key already has *)
DictSetKeepFirst(d, key, value) ==
  IF \E i \in DOMAIN d : d[i].alias = key
  THEN d
  ELSE Append(d, [alias |-> key, lid |-> value])

(* dict[key] = value on an insertion-ordered dict: a present key keeps its *)
(* place and takes the new value, a new key goes last                      *)
DictSet(d, key, value) ==
  IF \E i \in DOMAIN d : d[i].alias = key
  THEN [i \in DOMAIN d |-> IF d[i].alias = key THEN [d[i] EXCEPT !.lid = value] ELSE d[i]]
  ELSE Append(d, [alias |-> key, lid |-> value])

DictHas(d, key) == \E i \in DOMAIN d : d[i].alias = key

DictGet(d, key) == d[CHOOSE i \in DOMAIN d : d[i].alias = key].lid

(* for alias in aliases: alias_to_id[alias.lower()] = int(law_id_str) *)
RECURSIVE InsertAliases(_, _, _)
InsertAliases(d, lid, aliases) ==
  IF aliases = <<>> THEN d
  ELSE InsertAliases(DictSet(d, Lower(Head(aliases)), lid), lid, Tail(aliases))

(* for law_id_str, aliases in codex_aliases.items(): ... *)
RECURSIVE BuildIndex(_, _)
BuildIndex(d, table) ==
  IF table = <<>> THEN d
  ELSE BuildIndex(InsertAliases(d, Head(table).law_id, Head(table).aliases), Tail(table))

(* the "special cases" of resolve_law_id, in the order of the elif chain *)
KeywordTable == <<
  [kws |-> <<<<"v","o","z","d","u","sh","n","o","g","o"," ","k","o","d","e","k","s","a">>,
            <<"v","o","z","d","u","sh","n","y","j"," ","k","o","d","e","k","s">>>>,
   lid |-> Some(3)],
  [kws |-> <<<<"b","yu","d","zh","e","t","n","o","g","o"," ","k","o","d","e","k","s","a">>,
            <<"b","yu","d","zh","e","t","n","y","j"," ","k","o","d","e","k","s">>>>,
   lid |-> Some(1)],
  [kws |-> <<<<"n","a","l","o","g","o","v","o","g","o"," ","k","o","d","e","k","s","a">>,
            <<"n","a","l","o","g","o","v","y","j"," ","k","o","d","e","k","s">>>>,
   lid |-> Some(15)],
  [kws |-> <<<<"l","e","s","n","o","g","o"," ","k","o","d","e","k","s","a">>,
            <<"l","e","s","n","o","j"," ","k","o","d","e","k","s">>>>,
   lid |-> Some(14)],
  [kws |-> <<<<"z","e","m","e","l","q","n","o","g","o"," ","k","o","d","e","k","s","a">>,
            <<"z","e","m","e","l","q","n","y","j"," ","k","o","d","e","k","s">>>>,
   lid |-> Some(16)],
  [kws |-> <<<<"s","e","m","e","j","n","o","g","o"," ","k","o","d","e","k","s","a">>,
            <<"s","e","m","e","j","n","y","j"," ","k","o","d","e","k","s">>>>,
   lid |-> Some(8)],
  [kws |-> <<<<"g","r","a","zh","d","a","n","s","k","o","g","o"," ","p","r","o","c","e","s","s","u","a","l","q","n","o","g","o"," ","k","o","d","e","k","s","a">>,
            <<"g","p","k">>>>,
   lid |-> Some(6)],
  [kws |-> <<<<"k","o","d","e","k","s","a"," ","o","b"," ","a","d","m","i","n","i","s","t","r","a","t","i","v","n","y","h"," ","p","r","a","v","o","n","a","r","u","sh","e","n","i","ya","h">>,
            <<"k","o","a","p">>>>,
   lid |-> Some(17)],
  [kws |-> <<<<"k","o","d","e","k","s","a"," ","v","n","u","t","r","e","n","n","e","g","o"," ","v","o","d","n","o","g","o"," ","t","r","a","n","s","p","o","r","t","a">>>>,
   lid |-> Some(19)],
  [kws |-> <<<<"u","k","a","z","a"," ","p","r","e","z","i","d","e","n","t","a">>,
            <<"u","k","a","z"," ","p","r","e","z","i","d","e","n","t","a">>>>,
   lid |-> None]>>

(* if ... in key or ... in key: return id / elif ... / return None *)
RECURSIVE KeywordFallback(_, _)
KeywordFallback(key, table) ==
  IF table = <<>> THEN None
  ELSE IF \E i \in DOMAIN Head(table).kws : IsSubstr(Head(table).kws[i], key)
       THEN Head(table).lid
       ELSE KeywordFallback(key, Tail(table))

(* ScoreGreater with >= : an equal score replaces the current best *)
ScoreNotLess(a, b) == a.num * b.den >= b.num * a.den

(* score > best_score, on the quotients num / den *)
ScoreGreater(a, b) == a.num * b.den > b.num * a.den

(* the containment score of one alias: a quotient, or None when neither    *)
(* string contains the other                                               *)
ContainmentScore(alias, key) ==
  IF IsSubstr(alias, key) THEN Some([num |-> Len(alias), den |-> Len(key)])
  ELSE IF IsSubstr(key, alias) THEN Some([num |-> Len(key), den |-> Len(alias)])
  ELSE None

(* for alias, lid in alias_to_id.items(): keep the first greatest score *)
RECURSIVE BestOverlap(_, _, _)
BestOverlap(d, key, best) ==
  IF d = <<>> THEN best
  ELSE LET sc == ContainmentScore(Head(d).alias, key)
           next == IF sc # None /\ ScoreGreater(sc[1], best.best_score)
                   THEN [best_match |-> Some(Head(d).lid), best_score |-> sc[1]]
                   ELSE best
       IN BestOverlap(Tail(d), key, next)

NoBest == [best_match |-> None, best_score |-> [num |-> 0, den |-> 1]]

(* AboveThreshold with >= : a score of exactly 0.5 is accepted *)
AtLeastThreshold(score) == 2 * score.num >= score.den

(* best_score > 0.5 *)
AboveThreshold(score) == 2 * score.num > score.den

(* resolve_law_id without .lower(): the phrase is looked up as written *)
resolve_case_sensitive(name, d) ==
  LET key == Strip(name)
      best == BestOverlap(d, key, NoBest)
  IN IF DictHas(d, key) THEN Some(DictGet(d, key))
     ELSE IF AboveThreshold(best.best_score) THEN best.best_match
     ELSE KeywordFallback(key, KeywordTable)

(* resolve_law_id: Optional[int] *)
resolve_law_id(name, d) ==
  LET key == Lower(Strip(name))
      best == BestOverlap(d, key, NoBest)
  IN IF DictHas(d, key) THEN Some(DictGet(d, key))
     ELSE IF AboveThreshold(best.best_score) THEN best.best_match
     ELSE KeywordFallback(key, KeywordTable)

Punctuation == {".", ",", ";", ":"}

(* (match.group("lawname") or "").strip().strip(".,;:") *)
TrimLawName(group) ==
  StripChars(Strip(IF group = None THEN <<>> ELSE group[1]), Punctuation)

LawLink(lid, article, point, sub) ==
  [law_id |-> lid, article |-> article, point_article |-> point,
   subpoint_article |-> sub]

(* ExpandArticles with the loops exchanged: subpoints outermost *)
RECURSIVE ExpandSubpointsOuter(_, _, _, _)
ExpandSubpointsOuter(articlevalues, subvalues, pointvalues, lid) ==
  LET point == IF pointvalues # <<>> THEN Some(pointvalues[1]) ELSE None
  IN IF subvalues = <<>>
     THEN [a \in DOMAIN articlevalues |->
             LawLink(lid, Some(articlevalues[a]), point, None)]
     ELSE [a \in DOMAIN articlevalues |->
             LawLink(lid, Some(articlevalues[a]), point, Some(Head(subvalues)))]
          \o (IF Tail(subvalues) = <<>> THEN <<>>
              ELSE ExpandSubpointsOuter(articlevalues, Tail(subvalues), pointvalues, lid))

(* for article in articlevalues: one link per subpoint, or one link *)
RECURSIVE ExpandArticles(_, _, _, _)
ExpandArticles(articlevalues, subvalues, pointvalues, lid) ==
  IF articlevalues = <<>> THEN <<>>
  ELSE LET article == Head(articlevalues)
           point == IF pointvalues # <<>> THEN Some(pointvalues[1]) ELSE None
       IN (IF subvalues # <<>>
           THEN [j \in DOMAIN subvalues |->
                   LawLink(lid, Some(article), point, Some(subvalues[j]))]
           ELSE <<LawLink(lid, Some(article), point, None)>>)
          \o ExpandArticles(Tail(articlevalues), subvalues, pointvalues, lid)

(* ExpandMatch that skips a match whose law name does not resolve *)
ExpandMatchResolvedOnly(match, d) ==
  LET lid == resolve_law_id(TrimLawName(match.g.lawname), d)
      subvalues == split_values(match.g.subvalues)
      pointvalues == split_values(match.g.pointvalues)
      articlevalues == split_values(match.g.articlevalues)
  IN IF articlevalues = <<>> \/ lid = None THEN <<>>
     ELSE ExpandArticles(articlevalues, subvalues, pointvalues, lid)

(* the body of the loop over regex.finditer(text), for one match *)
ExpandMatch(match, d) ==
  LET lid == resolve_law_id(TrimLawName(match.g.lawname), d)
      subvalues == split_values(match.g.subvalues)
      pointvalues == split_values(match.g.pointvalues)
      articlevalues == split_values(match.g.articlevalues)
  IN IF articlevalues = <<>> THEN <<>>
     ELSE ExpandArticles(articlevalues, subvalues, pointvalues, lid)

RECURSIVE ExpandAll(_, _)
ExpandAll(matches, d) ==
  IF matches = <<>> THEN <<>>
  ELSE ExpandMatch(Head(matches), d) \o ExpandAll(Tail(matches), d)

(* get_law_links: the links of the response *)
get_law_links(text, regex, d) == ExpandAll(FindIter(regex, text, 0), d)

----------------------------------------------------------------------------
(* Bounds and inputs *)

(* values in one value list of a generated citation *)
MaxValues == 2
(* detect requests in the idempotence runs *)
MaxRequests == 3
(* characters of a law-name phrase handed to the resolver directly *)
MaxNameLen == 3
(* aliases listed under one law id in the generated alias files *)
MaxAliases == 2

SubTokens == <<<<"a">>, <<"b">>, <<"v">>, <<"g">>>>
PointTokens == <<<<"3">>, <<"4">>, <<"1",".","2">>, <<"7">>>>
ArticleTokens == <<<<"5">>, <<"6">>, <<"1","2">>, <<"4",".","6","-","8">>>>

RECURSIVE Join(_, _, _)
Join(tokens, n, sep) ==
  IF n = 0 THEN <<>>
  ELSE IF n = 1 THEN tokens[1]
  ELSE Join(tokens, n - 1, sep) \o sep \o tokens[n]

SubClause(n) ==
  IF n = 0 THEN <<>> ELSE <<"p","p",".">> \o Join(SubTokens, n, <<" ","i"," ">>) \o <<" ">>
PointClause(n) ==
  IF n = 0 THEN <<>> ELSE <<"p",".">> \o Join(PointTokens, n, <<","," ">>) \o <<" ">>
ArticleClause(n) ==
  IF n = 0 THEN <<>> ELSE <<"s","t",".">> \o Join(ArticleTokens, n, <<",">>)

(* citations with value lists of every length, a resolvable or an          *)
(* unresolvable law name or none, alone or followed by a second citation   *)
ListTexts ==
  {SubClause(i) \o PointClause(j) \o ArticleClause(k) \o name \o more :
     i \in 0..MaxValues, j \in 0..MaxValues, k \in 0..MaxValues,
     name \in {<<" ","G","K">>, <<" ","R","F">>},
     more \in {<<>>, <<";","p",".","1"," ","s","t",".","7"," ","U","K">>}}

(* one citation whose law name is followed by punctuation, white space or  *)
(* a second citation                                                       *)
NameTexts ==
  {<<"s","t",".","5">> \o pre \o noun \o trail \o more :
     pre \in {<<" ">>, <<" ",".">>},
     noun \in {<<"G","K">>, <<"g","k">>},
     trail \in {<<>>, <<".">>, <<"."," ",".">>, <<" ","R","F">>, <<":">>, <<" ">>},
     more \in {<<>>, <<"."," ","s","t",".","6"," ","N","K">>,
               <<"\n","s","t",".","6"," ","N","K">>,
               <<",","s","t",".","6"," ","N","K">>,
               <<";","s","t",".","6"," ","N","K">>}}

(* two citations, the second in the next sentence, line or list item *)
PairTexts ==
  {<<"s","t",".","5"," ">> \o noun \o trail \o sep \o second :
     noun \in {<<"G","K">>, <<"g","k">>},
     trail \in {<<>>, <<" ","R","F">>},
     sep \in {<<"."," ">>, <<"\n">>, <<","," ">>, <<";">>},
     second \in {<<"s","t",".","6"," ","N","K">>,
                 <<"p",".","1"," ","s","t",".","7"," ","U","K">>}}

PhraseTexts ==
  {<<"p","o","d","p","u","n","k","t"," ","a",","," ","b"," ","i"," ","v"," ",
     "p","u","n","k","t","a"," ","3"," ","s","t","a","t","q","i"," ","4","5"," ",
     "G","r","a","zh","d","a","n","s","k","o","g","o"," ","k","o","d","e","k","s","a">>,
   <<"s","t","a","t","q","ya"," ","1","2",","," ","1","3"," ",
     "N","a","l","o","g","o","v","o","g","o"," ","k","o","d","e","k","s","a">>,
   <<"s","t","a","t","q","ya"," ","4",".","6","-","8"," ","G","K">>}

DetectTexts == ListTexts \cup NameTexts \cup PhraseTexts

(* law_aliases.json as loaded: law id -> aliases, in file order *)
AliasFiles ==
  {<<[law_id |-> 9, aliases |-> <<<<"G","K">>,
        <<"G","r","a","zh","d","a","n","s","k","i","j"," ","k","o","d","e","k","s">>>>],
     [law_id |-> 15, aliases |-> <<<<"N","K">>>>]>>,
   <<[law_id |-> 9, aliases |-> <<<<"g","k"," ","r","f">>>>]>>}

IdemTexts ==
  {<<"s","t",".","5"," ","G","K">>,
   <<"p",".","3"," ","s","t",".","5",",","6"," ","g","k"," ","r">>,
   <<"s","t",".","5"," ","K","o","d","e","k","s","a">>,
   <<"p",".","3"," ","G","K">>}

SeqsUpTo(S, n) == UNION {[1..m -> S] : m \in 0..n}

NameChars == {"g", "p", "k", "G"}
AliasPool ==
  {<<"g">>, <<"g","p">>, <<"p","k">>, <<"G","P">>, <<"g","p","k">>, <<"k","g","p","k">>}
BuildPool == {<<"g","p">>, <<"G","P">>, <<"G","p">>, <<"k">>}

(* alias files with two law ids and up to MaxAliases aliases under each *)
BuildFiles ==
  {<<[law_id |-> 1, aliases |-> a], [law_id |-> 2, aliases |-> b]>> :
     a \in SeqsUpTo(BuildPool, MaxAliases) \ {<<>>}, b \in SeqsUpTo(BuildPool, MaxAliases)}

(* alias files with three aliases under two law ids *)
ResolveFiles ==
  {<<[law_id |-> 1, aliases |-> <<a, b>>], [law_id |-> 2, aliases |-> <<c>>]>> :
     a \in AliasPool, b \in AliasPool, c \in AliasPool}

NamePhrases == SeqsUpTo(NameChars, MaxNameLen) \ {<<>>}

----------------------------------------------------------------------------
(* The service *)

InitCommon ==
  /\ phase = "boot"
  /\ alias_to_id = <<>>
  /\ detect_regex = None
  /\ responses = <<>>
  /\ law_id = None

(* one detect request in flight *)
Init ==
  /\ InitCommon
  /\ codex_aliases \in AliasFiles
  /\ queue \in {<<t>> : t \in DetectTexts}
  /\ lawname = None

(* one detect request in flight, with two citations in its text *)
InitPairs ==
  /\ InitCommon
  /\ codex_aliases \in AliasFiles
  /\ queue \in {<<t>> : t \in PairTexts}
  /\ lawname = None

(* MaxRequests detect requests in flight *)
InitIdem ==
  /\ InitCommon
  /\ codex_aliases \in AliasFiles
  /\ queue \in [1..MaxRequests -> IdemTexts]
  /\ lawname = None

(* a law-name phrase for the resolver *)
InitResolve ==
  /\ InitCommon
  /\ queue = <<>>
  /\ codex_aliases \in ResolveFiles
  /\ lawname \in {Some(n) : n \in NamePhrases}

(* the generated alias files, and a phrase for the resolver *)
InitBuild ==
  /\ InitCommon
  /\ queue = <<>>
  /\ codex_aliases \in BuildFiles
  /\ lawname \in {Some(<<"G","P">>), Some(<<"k">>)}

(* lifespan, up to the yield *)
Startup ==
  /\ phase = "boot"
  /\ phase' = "serving"
  /\ alias_to_id' = BuildIndex(<<>>, codex_aliases)
  /\ detect_regex' = Some(pattern)
  /\ UNCHANGED <<codex_aliases, queue, responses, lawname, law_id>>

(* Detect that stores every resolved law name in the shared alias index *)
DetectCaching ==
  /\ phase = "serving"
  /\ queue # <<>>
  /\ LET text == Head(queue)
         matches == FindIter(detect_regex[1], text, 0)
         names == [i \in DOMAIN matches |-> TrimLawName(matches[i].g.lawname)]
         hits == SelectSeq(names, LAMBDA n : resolve_law_id(n, alias_to_id) # None)
         Store(d, n) == DictSet(d, Lower(Strip(n)), resolve_law_id(n, alias_to_id)[1])
     IN /\ responses' = Append(responses,
                               [text |-> text,
                                matches |-> [i \in DOMAIN matches |-> matches[i].g],
                                links |-> get_law_links(text, detect_regex[1], alias_to_id)])
        /\ alias_to_id' = IF hits = <<>> THEN alias_to_id ELSE Store(alias_to_id, hits[1])
  /\ queue' = Tail(queue)
  /\ UNCHANGED <<phase, codex_aliases, detect_regex, lawname, law_id>>

(* POST /detect: get_law_links on the next request; the response keeps the *)
(* scanner's matches beside the links                                      *)
Detect ==
  /\ phase = "serving"
  /\ queue # <<>>
  /\ LET text == Head(queue)
         matches == FindIter(detect_regex[1], text, 0)
     IN responses' = Append(responses,
                            [text |-> text,
                             matches |-> [i \in DOMAIN matches |-> matches[i].g],
                             links |-> get_law_links(text, detect_regex[1], alias_to_id)])
  /\ queue' = Tail(queue)
  /\ UNCHANGED <<phase, codex_aliases, alias_to_id, detect_regex, lawname, law_id>>

(* resolve_law_id on the phrase *)
Resolve ==
  /\ phase = "serving"
  /\ lawname # None
  /\ law_id = None
  /\ law_id' = Some(resolve_law_id(lawname[1], alias_to_id))
  /\ UNCHANGED <<phase, codex_aliases, alias_to_id, detect_regex, queue, responses, lawname>>

(* lifespan, after the yield: del codex_aliases drops the local name only *)
Shutdown ==
  /\ phase = "serving"
  /\ phase' = "stopped"
  /\ UNCHANGED <<codex_aliases, alias_to_id, detect_regex, queue, responses, lawname, law_id>>

(* GET /health: answers {"status": "healthy"} and touches nothing *)
Health ==
  /\ phase = "serving"
  /\ UNCHANGED vars

Next == Startup \/ Detect \/ Health \/ Shutdown

NextResolve == Startup \/ Resolve \/ Health \/ Shutdown

Spec == Init /\ [][Next]_vars

SpecPairs == InitPairs /\ [][Next]_vars

SpecIdem == InitIdem /\ [][Next]_vars

SpecResolve == InitResolve /\ [][NextResolve]_vars

SpecBuild == InitBuild /\ [][NextResolve]_vars

----------------------------------------------------------------------------
(* Properties of the alias index and of the resolver (SpecResolve) *)

Resolved == phase # "boot" /\ lawname # None /\ law_id # None

(* the phrase as the resolver looks it up *)
LookupKey == Lower(Strip(lawname[1]))

ExactKey == \E i \in DOMAIN alias_to_id : alias_to_id[i].alias = LookupKey

(* the index entries in a containment relation with the looked-up phrase *)
Overlapping ==
  {i \in DOMAIN alias_to_id :
     IsSubstr(alias_to_id[i].alias, LookupKey) \/ IsSubstr(LookupKey, alias_to_id[i].alias)}

(* length of the contained string and of the containing string *)
Shorter(i) ==
  IF Len(alias_to_id[i].alias) < Len(LookupKey)
  THEN Len(alias_to_id[i].alias) ELSE Len(LookupKey)
Longer(i) ==
  IF Len(alias_to_id[i].alias) < Len(LookupKey)
  THEN Len(LookupKey) ELSE Len(alias_to_id[i].alias)

(* the entries whose score no other entry exceeds *)
BestEntries ==
  {i \in Overlapping :
     \A j \in Overlapping : Shorter(j) * Longer(i) <= Shorter(i) * Longer(j)}

BestExceedsHalf == \E i \in BestEntries : 2 * Shorter(i) > Longer(i)

(* C2: a phrase that, lower-cased, is a key of the alias index resolves to  *)
(* that key's law id, whatever its case, the other aliases that contain it *)
(* or are contained in it, and the keyword table.                          *)
C2_ExactMatchWins ==
  Resolved =>
    \A i \in DOMAIN alias_to_id :
      alias_to_id[i].alias = LookupKey => law_id[1] = Some(alias_to_id[i].lid)

C2_Witness ==
  /\ Resolved
  /\ lawname[1] # LookupKey
  /\ \E i, j \in DOMAIN alias_to_id :
       /\ alias_to_id[i].alias = LookupKey
       /\ j \in Overlapping
       /\ alias_to_id[j].lid # alias_to_id[i].lid
       /\ law_id[1] = Some(alias_to_id[i].lid)

C4_FirstBestWins ==
  (Resolved /\ ~ExactKey /\ BestExceedsHalf) =>
    LET first == CHOOSE i \in BestEntries : \A j \in BestEntries : i <= j
    IN law_id[1] = Some(alias_to_id[first].lid)

C4_Witness ==
  /\ Resolved
  /\ ~ExactKey
  /\ BestExceedsHalf
  /\ \E i, j \in BestEntries :
       /\ i < j
       /\ \A n \in BestEntries : i <= n
       /\ alias_to_id[i].lid # alias_to_id[j].lid
       /\ law_id[1] = Some(alias_to_id[i].lid)

(* the places <<n, m>> of the alias file: alias m of law entry n *)
Listings ==
  {nm \in (DOMAIN codex_aliases) \X (1..(MaxAliases + 2)) :
     nm[2] \in DOMAIN codex_aliases[nm[1]].aliases}

ListedAlias(nm) == codex_aliases[nm[1]].aliases[nm[2]]

(* nm comes before or at pq in file order *)
NotAfter(nm, pq) == nm[1] < pq[1] \/ (nm[1] = pq[1] /\ nm[2] <= pq[2])

(* C6: the index built at start-up has one entry per lower-cased alias,    *)
(* every key is the lower-cased form of a listed alias, and an alias       *)
(* listed several times (in any case) maps to the law id listed last.      *)
C6_IndexLastWriteWins ==
  phase # "boot" =>
    /\ \A i \in DOMAIN alias_to_id :
         \E nm \in Listings : alias_to_id[i].alias = Lower(ListedAlias(nm))
    /\ \A i, j \in DOMAIN alias_to_id :
         alias_to_id[i].alias = alias_to_id[j].alias => i = j
    /\ \A nm \in Listings :
         LET last == CHOOSE pq \in Listings :
                       /\ Lower(ListedAlias(pq)) = Lower(ListedAlias(nm))
                       /\ \A xy \in Listings :
                            Lower(ListedAlias(xy)) = Lower(ListedAlias(nm))
                              => NotAfter(xy, pq)
         IN \E i \in DOMAIN alias_to_id :
              /\ alias_to_id[i].alias = Lower(ListedAlias(nm))
              /\ alias_to_id[i].lid = codex_aliases[last[1]].law_id

C6_Witness ==
  /\ phase # "boot"
  /\ \E nm, pq \in Listings :
       /\ nm[1] < pq[1]
       /\ ListedAlias(nm) # ListedAlias(pq)
       /\ Lower(ListedAlias(nm)) = Lower(ListedAlias(pq))
       /\ \E i \in DOMAIN alias_to_id :
            /\ alias_to_id[i].alias = Lower(ListedAlias(nm))
            /\ alias_to_id[i].lid = codex_aliases[pq[1]].law_id
            /\ alias_to_id[i].lid # codex_aliases[nm[1]].law_id

----------------------------------------------------------------------------
(* Properties of detection (Spec, SpecIdem) *)

Responses == {responses[i] : i \in DOMAIN responses}

Max(a, b) == IF a > b THEN a ELSE b

(* the number of links a match expands to *)
BlockLen(m) ==
  Len(split_values(m.articlevalues)) * Max(1, Len(split_values(m.subvalues)))

(* the number of links of the matches before match k *)
RECURSIVE Offset(_, _)
Offset(ms, k) == IF k <= 1 THEN 0 ELSE Offset(ms, k - 1) + BlockLen(ms[k - 1])

(* C1: a match with articles A, subpoints S and points P gives             *)
(* |A| * max(1, |S|) links, articles outermost, subpoints inside, each     *)
(* with that article, that subpoint (None without subpoints) and the first *)
(* point (None without points); the matches' links follow one another in   *)
(* scan order.                                                             *)
C1_ExpansionShape ==
  \A r \in Responses :
    /\ Len(r.links) = Offset(r.matches, Len(r.matches) + 1)
    /\ \A k \in DOMAIN r.matches :
         LET A == split_values(r.matches[k].articlevalues)
             S == split_values(r.matches[k].subvalues)
             P == split_values(r.matches[k].pointvalues)
             n == Max(1, Len(S))
         IN \A a \in DOMAIN A : \A b \in 1..n :
              LET link == r.links[Offset(r.matches, k) + (a - 1) * n + b]
              IN /\ link.article = Some(A[a])
                 /\ link.subpoint_article = (IF S = <<>> THEN None ELSE Some(S[b]))
                 /\ link.point_article = (IF P = <<>> THEN None ELSE Some(P[1]))

C1_Witness ==
  \E r \in Responses :
    /\ Len(r.matches) >= 2
    /\ Len(split_values(r.matches[1].articlevalues)) >= 2
    /\ Len(split_values(r.matches[1].subvalues)) >= 2
    /\ Len(split_values(r.matches[1].pointvalues)) >= 2
    /\ Len(r.links) = BlockLen(r.matches[1]) + BlockLen(r.matches[2])
    /\ r.links[Len(r.links)].article # r.links[1].article

(* C5: the links of a match are there whether or not its law name          *)
(* resolves: every match contributes its full block, and the block of a    *)
(* match with an unresolved name carries law_id None.                      *)
C5_UnresolvedKept ==
  \A r \in Responses :
    /\ Len(r.links) = Offset(r.matches, Len(r.matches) + 1)
    /\ \A k \in DOMAIN r.matches :
         LET lid == resolve_law_id(TrimLawName(r.matches[k].lawname), alias_to_id)
         IN \A b \in 1..BlockLen(r.matches[k]) :
              r.links[Offset(r.matches, k) + b].law_id = lid

C5_Witness ==
  \E r \in Responses :
    /\ Len(r.matches) = 2
    /\ resolve_law_id(TrimLawName(r.matches[1].lawname), alias_to_id) # None
    /\ resolve_law_id(TrimLawName(r.matches[2].lawname), alias_to_id) = None
    /\ BlockLen(r.matches[2]) > 0
    /\ r.links[Len(r.links)].law_id = None
    /\ r.links[1].law_id # None

(* s is at offset i of t, in any case *)
At(s, t, i) ==
  /\ i + Len(s) <= Len(t)
  /\ \A j \in 1..Len(s) : LowerChar(t[i + j]) = LowerChar(s[j])

ArticleKeywords ==
  {<<"s","t","a","t","q","ya">>, <<"s","t",".">>, <<"s","t","a","t","q","i">>}

NounWords == {LegalActNouns[i].s : i \in DOMAIN LegalActNouns}

(* offsets where a legal-act noun starts in t *)
NounOffsets(t) == {i \in 0..Len(t) : \E w \in NounWords : At(w, t, i)}

(* an article keyword at offset i, then white space, then a digit or letter *)
ArticleClauseAt(t, i) ==
  \E w \in ArticleKeywords :
    /\ At(w, t, i)
    /\ \E j \in (i + Len(w) + 1)..Len(t) :
         /\ t[j] \in Digits \cup Letters
         /\ \A x \in (i + Len(w) + 1)..(j - 1) : t[x] \in Whitespace

(* an article clause with a legal-act noun somewhere after its keyword *)
ArticleThenNoun(t) ==
  \E i \in 0..Len(t) : ArticleClauseAt(t, i) /\ \E j \in NounOffsets(t) : j > i

(* C10: links come only from a text with an article clause followed by a   *)
(* legal-act noun; every link's article is a value of a match whose        *)
(* law-name text holds a legal-act noun; other texts give no links.        *)
C10_AnchorsRequired ==
  \A r \in Responses :
    /\ ~ArticleThenNoun(r.text) => r.links = <<>>
    /\ \A n \in DOMAIN r.links :
         \E k \in DOMAIN r.matches :
           /\ r.matches[k].articlevalues # None
           /\ r.links[n].article \in
                {Some(v) : v \in Range(split_values(r.matches[k].articlevalues))}
           /\ r.matches[k].lawname # None
           /\ NounOffsets(r.matches[k].lawname[1]) # {}

C10_Witness ==
  \E r \in Responses :
    /\ \E i \in 0..Len(r.text) : ArticleClauseAt(r.text, i)
    /\ NounOffsets(r.text) = {}
    /\ r.links = <<>>

(* where the first legal-act noun of a captured law name ends *)
FirstNounEnd(ln) ==
  LET first == CHOOSE i \in NounOffsets(ln) : \A j \in NounOffsets(ln) : i <= j
      word == CHOOSE w \in NounWords : At(w, ln, first)
  IN first + Len(word)

SentenceEnds == {".", ";", ",", "\n"}

(* C7: the captured law name does not go on after the first period,       *)
(* semicolon, comma or line break that follows its legal-act noun, so no   *)
(* article clause of a later sentence or line is inside a law name.        *)
C7_NameEndsAtSentenceEnd ==
  \A r \in Responses : \A k \in DOMAIN r.matches :
    LET ln == r.matches[k].lawname[1]
    IN \A j \in (FirstNounEnd(ln) + 1)..Len(ln) :
         ln[j] \in SentenceEnds =>
           /\ j = Len(ln)
           /\ \A i \in j..Len(ln) : ~ArticleClauseAt(ln, i)

(* C8: the name the resolver looks up has no white space at either end and *)
(* no punctuation at its end, and trimming a trimmed name changes nothing. *)
C8_LookupNameTrimmed ==
  \A r \in Responses : \A k \in DOMAIN r.matches :
    LET trimmed == TrimLawName(r.matches[k].lawname)
        key == Lower(Strip(trimmed))
    IN /\ key # <<>> =>
            /\ key[1] \notin Whitespace
            /\ key[Len(key)] \notin Whitespace \cup Punctuation
       /\ TrimLawName(Some(trimmed)) = trimmed

(* C9: once started, the alias index and the grammar stay what start-up    *)
(* made them, and requests with the same text get the same links, whatever *)
(* was requested before or between them.                                   *)
C9_DetectIdempotent ==
  phase # "boot" =>
    /\ alias_to_id = BuildIndex(<<>>, codex_aliases)
    /\ detect_regex = Some(pattern)
    /\ \A i, j \in DOMAIN responses :
         responses[i].text = responses[j].text
           => responses[i].links = responses[j].links

C9_Witness ==
  /\ Len(responses) = 3
  /\ responses[1].text = responses[3].text
  /\ responses[1].text # responses[2].text
  /\ responses[1].links # <<>>
  /\ responses[2].links # <<>>
  /\ \E n \in DOMAIN responses[1].links : responses[1].links[n].law_id = None

====
